---- MODULE Spec2Model ----
(***************************************************************************)
(* Model of tools/spreadsheet_extractor.py: the field-mapping parser       *)
(* (handler_input), the CSV decoder with its encoding fallback             *)
(* (read_csv_with_encoding), header cleaning (clean_column_name), the      *)
(* projection (read_table_file_to_objects) and the tool entry point        *)
(* (SpreadsheetExtractorTool._invoke), whose generator is stepped one      *)
(* statement group at a time.                                              *)
(*                                                                         *)
(* A Python str is a sequence of character units.  The units are one-      *)
(* character TLA+ strings, except the named ones below.                    *)
(***************************************************************************)
EXTENDS Integers, Sequences, FiniteSets, TLC

VARIABLES pc, tool_parameters, field_mapping, enc_idx, df, result, exc, messages

vars == <<pc, tool_parameters, field_mapping, enc_idx, df, result, exc, messages>>

----------------------------------------------------------------------------
(* Characters and strings *)

\* U+00A0, U+3000, \t, \n, \r as raw characters of a text.
NBSP == "NBSP"
IDSP == "IDSP"
TAB  == "TAB"
LF   == "LF"
CR   == "CR"
\* The six characters backslash u 0 0 a 0 inside a JSON string literal: a JSON
\* escape, which json.loads turns into U+00A0 and
\* which no regular expression over the raw text sees as whitespace.
ESC_NBSP == "ESC_NBSP"

\* What Python's \s (and str.strip, str.isspace) treats as whitespace, among
\* the characters of this model.
PyWhitespace == {" ", NBSP, IDSP, TAB, LF, CR}

\* The whitespace RFC 8259 (and json.loads) allows between tokens.
JsonWhitespace == {" ", TAB, LF, CR}

\* Characters json.loads (strict) refuses inside a string literal.
JsonControl == {TAB, LF, CR}

RECURSIVE LStrip(_)
LStrip(s) ==
    IF s # <<>> /\ Head(s) \in PyWhitespace THEN LStrip(Tail(s)) ELSE s

RECURSIVE RStrip(_)
RStrip(s) ==
    IF s # <<>> /\ s[Len(s)] \in PyWhitespace
    THEN RStrip(SubSeq(s, 1, Len(s) - 1))
    ELSE s

\* str.strip()
Strip(s) == RStrip(LStrip(s))

\* re.sub(cls+, ' ', s): every maximal run of characters of cls becomes one
\* ASCII space.
RECURSIVE ReSubRuns(_, _)
ReSubRuns(cls, s) ==
    IF s = <<>> THEN <<>>
    ELSE IF Head(s) \in cls
         THEN IF Len(s) > 1 /\ s[2] \in cls
              THEN ReSubRuns(cls, Tail(s))
              ELSE <<" ">> \o ReSubRuns(cls, Tail(s))
         ELSE <<Head(s)>> \o ReSubRuns(cls, Tail(s))

\* The character class of handler_input: \s and U+00A0.
HandlerWsClass == PyWhitespace \cup {NBSP}

\* The character class of clean_column_name: \s, U+00A0, U+3000, \r, \n, \t.
ColumnWsClass == PyWhitespace \cup {NBSP, IDSP, CR, LF, TAB}

\* str.lower() on the letters a file extension is made of here.
LowerChar(c) ==
    CASE c = "C" -> "c" [] c = "S" -> "s" [] c = "V" -> "v"
      [] c = "X" -> "x" [] c = "L" -> "l" [] c = "T" -> "t"
      [] OTHER -> c

Lower(s) == [i \in 1..Len(s) |-> LowerChar(s[i])]

----------------------------------------------------------------------------
(* Python values *)

PyStr(s) == [t |-> "str", s |-> s]
PyNum(s) == [t |-> "num", s |-> s]
PyNull   == [t |-> "none", s |-> <<>>]
NaN      == [t |-> "nan", s |-> <<>>]

\* str(v)
Str(v) ==
    CASE v.t = "str"  -> v.s
      [] v.t = "num"  -> v.s
      [] v.t = "none" -> <<"N", "o", "n", "e">>
      [] OTHER        -> <<"n", "a", "n">>

\* A dict is a sequence of <<key, value>> pairs with pairwise different keys,
\* in insertion order.
DictKeys(d) == [i \in 1..Len(d) |-> d[i][1]]
DictValues(d) == [i \in 1..Len(d) |-> d[i][2]]
KeySet(d) == {d[i][1] : i \in 1..Len(d)}
HasKey(d, k) == \E i \in 1..Len(d) : d[i][1] = k
DictGet(d, k) == d[CHOOSE i \in 1..Len(d) : d[i][1] = k][2]

\* d[k] = v: an existing key keeps its place and takes the new value.
DictSet(d, k, v) ==
    IF HasKey(d, k)
    THEN [i \in 1..Len(d) |-> IF d[i][1] = k THEN <<k, v>> ELSE d[i]]
    ELSE Append(d, <<k, v>>)

\* dict(pairs)
RECURSIVE DictOf(_)
DictOf(pairs) ==
    IF pairs = <<>> THEN <<>>
    ELSE LET n == Len(pairs)
         IN  DictSet(DictOf(SubSeq(pairs, 1, n - 1)), pairs[n][1], pairs[n][2])

----------------------------------------------------------------------------
(* Exceptions *)

\* An exception: its class, the format string of its message, the values
\* formatted into the message (each a list of strings) and, when the message
\* embeds str(e) of another exception, that exception.
Exc(cls, fmt, args, cause) ==
    [cls |-> cls, fmt |-> fmt, args |-> args, cause |-> cause]

NoExc == Exc("none", "", <<>>, <<>>)

----------------------------------------------------------------------------
(* The table_fields text and json.loads *)

\* A text is a sequence of tokens.  A "ws" token is one whitespace character
\* outside every string literal; a "str" token is a string literal with the
\* characters between its quotes; "num" and "null" are literals; "junk" is a
\* character that starts no JSON value.
Tok(k, v) == [k |-> k, v |-> v]
Ws(c)     == Tok("ws", <<c>>)
StrTok(s) == Tok("str", s)
NumTok    == Tok("num", <<"1">>)
NullTok   == Tok("null", <<>>)
JunkTok   == Tok("junk", <<"n", "o", "t">>)
LBrace    == Tok("{", <<>>)
RBrace    == Tok("}", <<>>)
Colon     == Tok(":", <<>>)
Comma     == Tok(",", <<>>)

IsWsTok(tk) == tk.k = "ws"

\* re.sub over the class of handler_input, on the characters of the text: a run of
\* whitespace between tokens becomes one space, and so does a run inside a
\* string literal (a quote ends every run).
RECURSIVE ReSubText(_)
ReSubText(text) ==
    IF text = <<>> THEN <<>>
    ELSE LET h == Head(text)
         IN  IF IsWsTok(h) /\ h.v[1] \in HandlerWsClass
             THEN IF Len(text) > 1 /\ IsWsTok(text[2]) /\ text[2].v[1] \in HandlerWsClass
                  THEN ReSubText(Tail(text))
                  ELSE <<Ws(" ")>> \o ReSubText(Tail(text))
             ELSE IF h.k = "str"
                  THEN <<StrTok(ReSubRuns(HandlerWsClass, h.v))>> \o ReSubText(Tail(text))
                  ELSE <<h>> \o ReSubText(Tail(text))

RECURSIVE LStripText(_)
LStripText(text) ==
    IF text # <<>> /\ IsWsTok(Head(text)) /\ Head(text).v[1] \in PyWhitespace
    THEN LStripText(Tail(text))
    ELSE text

RECURSIVE RStripText(_)
RStripText(text) ==
    IF text # <<>> /\ IsWsTok(text[Len(text)]) /\ text[Len(text)].v[1] \in PyWhitespace
    THEN RStripText(SubSeq(text, 1, Len(text) - 1))
    ELSE text

\* text.strip()
StripText(text) == RStripText(LStripText(text))

\* The characters a string literal denotes.
JsonUnescape(s) == [i \in 1..Len(s) |-> IF s[i] = ESC_NBSP THEN NBSP ELSE s[i]]

JsonValueKinds == {"str", "num", "null"}

JsonValueOf(tk) ==
    CASE tk.k = "str" -> PyStr(JsonUnescape(tk.v))
      [] tk.k = "num" -> PyNum(tk.v)
      [] OTHER        -> PyNull

\* Whether the tokens between the braces are "key": value pairs separated by
\* commas.
IsMemberList(inner) ==
    /\ Len(inner) % 4 = 3
    /\ \A i \in 1..Len(inner) :
          CASE i % 4 = 1 -> inner[i].k = "str"
            [] i % 4 = 2 -> inner[i].k = ":"
            [] i % 4 = 3 -> inner[i].k \in JsonValueKinds
            [] OTHER     -> inner[i].k = ","

MemberPairs(inner) ==
    [j \in 1..((Len(inner) + 1) \div 4) |->
        <<JsonUnescape(inner[4 * j - 3].v), JsonValueOf(inner[4 * j - 1])>>]

\* json.loads(text): [t |-> "err"] for a JSONDecodeError, else the value; an
\* object comes back as a dict in which a repeated key keeps its first place
\* and its last value.
json_loads(text) ==
    LET toks == SelectSeq(text, LAMBDA tk : ~IsWsTok(tk))
        n    == Len(toks)
        lex  == /\ \A i \in 1..Len(text) :
                      /\ IsWsTok(text[i]) => text[i].v[1] \in JsonWhitespace
                      /\ text[i].k # "junk"
                      /\ text[i].k = "str" =>
                            \A j \in 1..Len(text[i].v) : text[i].v[j] \notin JsonControl
    IN  IF ~lex \/ n = 0 THEN [t |-> "err"]
        ELSE IF n = 1
             THEN IF toks[1].k \in JsonValueKinds
                  THEN JsonValueOf(toks[1])
                  ELSE [t |-> "err"]
             ELSE IF toks[1].k = "{" /\ toks[n].k = "}"
                  THEN LET inner == SubSeq(toks, 2, n - 1)
                       IN  IF inner = <<>>
                           THEN [t |-> "dict", items |-> <<>>]
                           ELSE IF IsMemberList(inner)
                                THEN [t |-> "dict", items |-> DictOf(MemberPairs(inner))]
                                ELSE [t |-> "err"]
                  ELSE [t |-> "err"]

----------------------------------------------------------------------------
(* handler_input *)

Returned(v) == [ok |-> TRUE, value |-> v, exc |-> NoExc]
Raised(e)   == [ok |-> FALSE, value |-> <<>>, exc |-> e]

\* handler_loop storing field and alias as they stand, unstripped.
RECURSIVE handler_loop_Unstripped(_, _)
handler_loop_Unstripped(items, acc) ==
    IF items = <<>> THEN Returned(acc)
    ELSE LET field == items[1][1]
             alias == items[1][2]
         IN  IF Strip(field) = <<>>
             THEN Raised(Exc("ValueError", "Invalid field: {field}", <<<<field>>>>, <<>>))
             ELSE IF alias.t # "str" \/ Strip(alias.s) = <<>>
                  THEN Raised(Exc("ValueError", "Invalid alias for '{field}': {alias}",
                                  <<<<field>>, <<Str(alias)>>>>, <<>>))
                  ELSE handler_loop_Unstripped(Tail(items), DictSet(acc, field, alias.s))

\* handler_loop testing the alias for its type only, not for being blank.
RECURSIVE handler_loop_BlankAlias(_, _)
handler_loop_BlankAlias(items, acc) ==
    IF items = <<>> THEN Returned(acc)
    ELSE LET field == items[1][1]
             alias == items[1][2]
         IN  IF Strip(field) = <<>>
             THEN Raised(Exc("ValueError", "Invalid field: {field}", <<<<field>>>>, <<>>))
             ELSE IF alias.t # "str"
                  THEN Raised(Exc("ValueError", "Invalid alias for '{field}': {alias}",
                                  <<<<field>>, <<Str(alias)>>>>, <<>>))
                  ELSE handler_loop_BlankAlias(Tail(items),
                                               DictSet(acc, Strip(field), Strip(alias.s)))

\* The loop over field_mapping.items(): the first bad pair raises, a good one
\* is stored under its stripped key.
RECURSIVE handler_loop(_, _)
handler_loop(items, acc) ==
    IF items = <<>> THEN Returned(acc)
    ELSE LET field == items[1][1]
             alias == items[1][2]
         IN  IF Strip(field) = <<>>
             THEN Raised(Exc("ValueError", "Invalid field: {field}", <<<<field>>>>, <<>>))
             ELSE IF alias.t # "str" \/ Strip(alias.s) = <<>>
                  THEN Raised(Exc("ValueError", "Invalid alias for '{field}': {alias}",
                                  <<<<field>>, <<Str(alias)>>>>, <<>>))
                  ELSE handler_loop(Tail(items),
                                    DictSet(acc, Strip(field), Strip(alias.s)))

\* except Exception as e: raise ValueError(f"Failed to parse table_fields: {e}")
handler_wrap(r) ==
    IF r.ok THEN r
    ELSE Raised(Exc("ValueError", "Failed to parse table_fields: {e}", <<>>, <<r.exc>>))

handler_input(table_fields) ==
    LET normalized == StripText(ReSubText(table_fields))
    IN  IF table_fields = <<>> \/ StripText(table_fields) = <<>>
        THEN Raised(Exc("ValueError", "Empty table_fields input", <<>>, <<>>))
        ELSE LET field_map == json_loads(normalized)
             IN  IF field_map.t = "err"
                 THEN Raised(Exc("ValueError", "Invalid JSON format: {e}", <<>>, <<>>))
                 ELSE IF field_map.t # "dict"
                      THEN handler_wrap(Raised(Exc("ValueError",
                                                   "Input must be a JSON object", <<>>, <<>>)))
                      ELSE handler_wrap(handler_loop(field_map.items, <<>>))

----------------------------------------------------------------------------
(* Files, decoding and pandas.read_csv *)

\* The codecs in the other order.
Encodings_GbkFirst == <<"gbk", "utf-8">>

\* The default of read_csv_with_encoding's encodings parameter.
Encodings == <<"utf-8", "gbk">>

\* file.blob is known by what each codec makes of it: either a
\* UnicodeDecodeError or a text, and a text is either one the CSV tokenizer
\* rejects ("malformed": pandas.errors.ParserError), one with no columns
\* ("empty": pandas.errors.EmptyDataError, which is no ParserError) or a
\* header line and rows of cell texts.  Under "sheet" stands what the bytes
\* are as a workbook: the table of its first sheet, or nothing.
DecodeError == [ok |-> FALSE, text |-> [kind |-> "none", header |-> <<>>, rows |-> <<>>]]
Decoded(text) == [ok |-> TRUE, text |-> text]
CsvTable(header, rows) == [kind |-> "table", header |-> header, rows |-> rows]
Malformed == [kind |-> "malformed", header |-> <<>>, rows |-> <<>>]
EmptyText == [kind |-> "empty", header |-> <<>>, rows |-> <<>>]

\* content.decode(encoding)
bytes_decode(content, encoding) ==
    IF content[encoding].ok
    THEN Returned(content[encoding].text)
    ELSE Raised(Exc("UnicodeDecodeError", "codec can't decode byte", <<<<<<encoding>>>>>>, <<>>))

\* Some of the cell texts pandas.read_csv reads as missing by default
\* (keep_default_na=True, which dtype=str leaves on): the empty cell and the
\* default NA markers.
NaValues ==
    { <<>>, <<"N", "A">>, <<"N", "a", "N">>, <<"n", "u", "l", "l">>,
      <<"N", "o", "n", "e">>, <<"n", "a", "n">>, <<"N", "U", "L", "L">> }

\* One cell under dtype=str.
read_cell(cell) == IF cell \in NaValues THEN NaN ELSE PyStr(cell)

DataFrame(columns, data) == [columns |-> columns, data |-> data]

NoFrame == DataFrame(<<>>, <<>>)

\* pd.read_csv(io.StringIO(text), dtype=str)
pd_read_csv(text) ==
    CASE text.kind = "malformed" ->
            Raised(Exc("ParserError", "Error tokenizing data", <<>>, <<>>))
      [] text.kind = "empty" ->
            Raised(Exc("EmptyDataError", "No columns to parse from file", <<>>, <<>>))
      [] OTHER ->
            Returned(DataFrame(
                [c \in 1..Len(text.header) |-> PyStr(text.header[c])],
                [r \in 1..Len(text.rows) |->
                    [c \in 1..Len(text.rows[r]) |-> read_cell(text.rows[r][c])]]))

\* The exception classes the loop of read_csv_with_encoding catches.
CaughtInLoop == {"UnicodeDecodeError", "ParserError"}

\* One pass of the loop body of read_csv_with_encoding.
try_encoding(content, encoding) ==
    LET text == bytes_decode(content, encoding)
    IN  IF text.ok THEN pd_read_csv(text.value) ELSE text

\* pandas has no attribute read_spreadsheet (its reader of .xlsx and .xls is
\* read_excel): the attribute lookup raises before anything is read.
pd_read_spreadsheet(content) ==
    Raised(Exc("AttributeError", "module 'pandas' has no attribute 'read_spreadsheet'",
               <<>>, <<>>))

\* except Exception as e: raise RuntimeError(f"Failed to parse file: {e}") from e
parse_wrap(e) == Exc("RuntimeError", "Failed to parse file: {e}", <<>>, <<e>>)

DotCsv  == <<".", "c", "s", "v">>
DotXlsx == <<".", "x", "l", "s", "x">>
DotXls  == <<".", "x", "l", "s">>

----------------------------------------------------------------------------
(* clean_column_name and the projection *)

\* clean_column_name that strips the ends and leaves the inside alone.
clean_column_name_StripOnly(name) == Strip(Str(name))

clean_column_name(name) ==
    IF name.t # "str"
    THEN Strip(Str(name))
    ELSE Strip(ReSubRuns(ColumnWsClass, name.s))

RECURSIVE Concat(_)
Concat(ss) == IF ss = <<>> THEN <<>> ELSE Head(ss) \o Concat(Tail(ss))

\* The positions of the columns called label, left to right.
Positions(columns, label) ==
    LET RECURSIVE From(_)
        From(i) == IF i > Len(columns) THEN <<>>
                   ELSE IF columns[i] = label THEN <<i>> \o From(i + 1)
                   ELSE From(i + 1)
    IN  From(1)

\* A selection that keeps the frame's own column order.
Select_FrameOrder(frame, labels) ==
    LET pos == SelectSeq([i \in 1..Len(frame.columns) |-> i],
                         LAMBDA i : \E k \in 1..Len(labels) : frame.columns[i] = labels[k])
    IN  DataFrame([i \in 1..Len(pos) |-> frame.columns[pos[i]]],
                  [r \in 1..Len(frame.data) |->
                      [i \in 1..Len(pos) |-> frame.data[r][pos[i]]]])

\* df[labels]: for each label in turn, every column called so.
Select(frame, labels) ==
    LET pos == Concat([k \in 1..Len(labels) |-> Positions(frame.columns, labels[k])])
    IN  DataFrame([i \in 1..Len(pos) |-> frame.columns[pos[i]]],
                  [r \in 1..Len(frame.data) |->
                      [i \in 1..Len(pos) |-> frame.data[r][pos[i]]]])

\* df.rename(columns=mapping)
Rename(frame, mapping) ==
    DataFrame([i \in 1..Len(frame.columns) |->
                  IF HasKey(mapping, frame.columns[i])
                  THEN DictGet(mapping, frame.columns[i])
                  ELSE frame.columns[i]],
              frame.data)

\* df.where(pd.notnull(df), None)
WhereNotNull(frame) ==
    DataFrame(frame.columns,
              [r \in 1..Len(frame.data) |->
                  [c \in 1..Len(frame.data[r]) |->
                      IF frame.data[r][c].t = "nan" THEN PyNull ELSE frame.data[r][c]]])

\* df.to_dict(orient='records'): dict(zip(columns, row)) for each tuple of
\* itertuples, which zips the column arrays and so yields no tuple at all
\* for a frame without columns.
ToDictRecords(frame) ==
    IF frame.columns = <<>> THEN <<>>
    ELSE [r \in 1..Len(frame.data) |->
            DictOf([c \in 1..Len(frame.columns) |->
                      <<frame.columns[c], frame.data[r][c]>>])]

\* The orders in which a set may be printed.
Orderings(S) ==
    {s \in [1..Cardinality(S) -> S] : \A i, j \in 1..Cardinality(S) : s[i] = s[j] => i = j}

\* original_columns = df.columns.tolist(); df.columns = [clean_column_name(col) ...]
clean_columns(frame) ==
    DataFrame([i \in 1..Len(frame.columns) |-> clean_column_name(frame.columns[i])],
              frame.data)

\* The difference taken the other way round.
missing_columns_Reversed(frame, mapping) ==
    {frame.columns[i] : i \in 1..Len(frame.columns)} \ KeySet(mapping)

\* set(field_mapping.keys()) - set(df.columns)
missing_columns(frame, mapping) ==
    KeySet(mapping) \ {frame.columns[i] : i \in 1..Len(frame.columns)}

\* The check of the mapped columns, the selection, the renaming and the
\* records; order is the order in which the set missing_cols happens to be
\* printed.
project(frame, mapping, order) ==
    IF missing_columns(frame, mapping) # {}
    THEN Raised(Exc("ValueError",
                    "Missing columns in file: {missing_cols}. Available: {list(df.columns)}",
                    <<order, frame.columns>>, <<>>))
    ELSE Returned(ToDictRecords(WhereNotNull(
             Rename(Select(frame, DictKeys(mapping)), mapping))))

----------------------------------------------------------------------------
(* json.dumps and the messages of the tool *)

JsonEscapeChar(c) ==
    CASE c = TAB -> "\\t" [] c = LF -> "\\n" [] c = CR -> "\\r" [] OTHER -> c

JsonEscape(s) == [i \in 1..Len(s) |-> JsonEscapeChar(s[i])]

RECURSIVE JoinToks(_, _)
JoinToks(parts, sep) ==
    IF parts = <<>> THEN <<>>
    ELSE IF Len(parts) = 1 THEN parts[1]
    ELSE parts[1] \o sep \o JoinToks(Tail(parts), sep)

DumpValue(v) ==
    CASE v.t = "str"  -> StrTok(JsonEscape(v.s))
      [] v.t = "none" -> NullTok
      [] OTHER        -> Tok("NaN", <<>>)

DumpRecord(rec) ==
    <<LBrace>>
    \o JoinToks([i \in 1..Len(rec) |->
                    <<StrTok(JsonEscape(rec[i][1])), Colon, Ws(" "), DumpValue(rec[i][2])>>],
                <<Comma, Ws(" ")>>)
    \o <<RBrace>>

\* json.dumps({"result": records}, ensure_ascii=False)
json_dumps(output) ==
    <<LBrace, StrTok(<<"r", "e", "s", "u", "l", "t">>), Colon, Ws(" "), Tok("[", <<>>)>>
    \o JoinToks([r \in 1..Len(output.result) |-> DumpRecord(output.result[r])],
                <<Comma, Ws(" ")>>)
    \o <<Tok("]", <<>>), RBrace>>

NoOutput == [result |-> <<>>]

\* self.create_json_message(output)
create_json_message(output) ==
    [type |-> "json", fmt |-> "", json |-> output, text |-> <<>>, e |-> <<>>]

\* self.create_text_message(json.dumps(output, ensure_ascii=False))
create_text_message(text) ==
    [type |-> "text", fmt |-> "{text}", json |-> NoOutput, text |-> text, e |-> <<>>]

\* self.create_text_message(f"Error: {str(e)}")
create_error_message(e) ==
    [type |-> "text", fmt |-> "Error: {e}", json |-> NoOutput, text |-> <<>>, e |-> <<e>>]

----------------------------------------------------------------------------
(* SpreadsheetExtractorTool._invoke, one statement group per action *)

Params(has_fields, table_fields, has_file, file) ==
    [has_table_fields |-> has_fields, table_fields |-> table_fields,
     has_file |-> has_file, file |-> file]

\* A File object, or (is_file FALSE) a value of another type.
File(extension, blob) == [is_file |-> TRUE, extension |-> extension, blob |-> blob]

Raise(e) == /\ exc' = e
            /\ pc' = "except"

\* field_mapping = handler_input(tool_parameters["table_fields"])
HandlerInput ==
    /\ pc = "start"
    /\ IF ~tool_parameters.has_table_fields
       THEN /\ Raise(Exc("KeyError", "'table_fields'", <<>>, <<>>))
            /\ UNCHANGED field_mapping
       ELSE LET r == handler_input(tool_parameters.table_fields)
            IN  IF r.ok
                THEN /\ field_mapping' = r.value
                     /\ pc' = "read"
                     /\ UNCHANGED exc
                ELSE /\ Raise(r.exc)
                     /\ UNCHANGED field_mapping
    /\ UNCHANGED <<tool_parameters, enc_idx, df, result, messages>>

\* read_table_file_to_objects(tool_parameters["file"], field_mapping) up to
\* the choice of the reader.
ReadTableStart ==
    /\ pc = "read"
    /\ IF ~tool_parameters.has_file
       THEN Raise(Exc("KeyError", "'file'", <<>>, <<>>))
       ELSE IF ~tool_parameters.file.is_file
       THEN Raise(Exc("TypeError", "Invalid file format, expected File object", <<>>, <<>>))
       ELSE LET ext == Lower(tool_parameters.file.extension)
                content == tool_parameters.file.blob
            IN  IF ext = DotCsv
                THEN /\ pc' = "csv"
                     /\ UNCHANGED exc
                ELSE IF ext \in {DotXlsx, DotXls}
                THEN Raise(parse_wrap(pd_read_spreadsheet(content).exc))
                ELSE Raise(parse_wrap(Exc("ValueError",
                         "Unsupported file format: {ext}. Only .csv, .xlsx, and .xls are supported.",
                         <<<<ext>>>>, <<>>)))
    /\ enc_idx' = 1
    /\ UNCHANGED <<tool_parameters, field_mapping, df, result, messages>>

\* One iteration of the loop of read_csv_with_encoding, or its end.
TryEncoding ==
    /\ pc = "csv"
    /\ IF enc_idx > Len(Encodings)
       THEN /\ Raise(parse_wrap(Exc("RuntimeError",
                        "Failed to decode CSV with encodings: {encodings}",
                        <<[i \in 1..Len(Encodings) |-> <<Encodings[i]>>]>>, <<>>)))
            /\ UNCHANGED <<enc_idx, df>>
       ELSE LET r == try_encoding(tool_parameters.file.blob, Encodings[enc_idx])
            IN  IF r.ok
                THEN /\ df' = r.value
                     /\ pc' = "clean"
                     /\ UNCHANGED <<enc_idx, exc>>
                ELSE IF r.exc.cls \in CaughtInLoop
                THEN /\ enc_idx' = enc_idx + 1
                     /\ UNCHANGED <<pc, df, exc>>
                ELSE /\ Raise(parse_wrap(r.exc))
                     /\ UNCHANGED <<enc_idx, df>>
    /\ UNCHANGED <<tool_parameters, field_mapping, result, messages>>

\* df.columns = cleaned_columns
CleanColumns ==
    /\ pc = "clean"
    /\ df' = clean_columns(df)
    /\ pc' = "project"
    /\ UNCHANGED <<tool_parameters, field_mapping, enc_idx, result, exc, messages>>

\* The rest of read_table_file_to_objects, and output = {"result": result}.
Project ==
    /\ pc = "project"
    /\ \E order \in Orderings(missing_columns(df, field_mapping)) :
          LET r == project(df, field_mapping, order)
          IN  IF r.ok
              THEN /\ result' = r.value
                   /\ pc' = "yield_json"
                   /\ UNCHANGED exc
              ELSE /\ Raise(r.exc)
                   /\ UNCHANGED result
    /\ UNCHANGED <<tool_parameters, field_mapping, enc_idx, df, messages>>

\* yield self.create_json_message(output)
YieldJson ==
    /\ pc = "yield_json"
    /\ messages' = Append(messages, create_json_message([result |-> result]))
    /\ pc' = "yield_text"
    /\ UNCHANGED <<tool_parameters, field_mapping, enc_idx, df, result, exc>>

\* json.dumps raising on the output once the result message is out.
YieldText_DumpsRaises ==
    /\ pc = "yield_text"
    /\ Raise(Exc("TypeError", "Object is not JSON serializable", <<>>, <<>>))
    /\ UNCHANGED <<tool_parameters, field_mapping, enc_idx, df, result, messages>>

\* yield self.create_text_message(json.dumps(output, ensure_ascii=False))
YieldText ==
    /\ pc = "yield_text"
    /\ messages' = Append(messages, create_text_message(json_dumps([result |-> result])))
    /\ pc' = "done"
    /\ UNCHANGED <<tool_parameters, field_mapping, enc_idx, df, result, exc>>

\* except Exception as e: yield self.create_text_message(f"Error: {str(e)}")
Except ==
    /\ pc = "except"
    /\ messages' = Append(messages, create_error_message(exc))
    /\ pc' = "done"
    /\ UNCHANGED <<tool_parameters, field_mapping, enc_idx, df, result, exc>>

Next ==
    \/ HandlerInput
    \/ ReadTableStart
    \/ TryEncoding
    \/ CleanColumns
    \/ Project
    \/ YieldJson
    \/ YieldText
    \/ Except

----------------------------------------------------------------------------
(* The inputs *)

\* At most this many "key": value members in a table_fields object.
MaxPairs == 2
\* At most this many columns and rows in a CSV text.
MaxCols == 2
MaxRows == 2

Name == <<"N", "a", "m", "e">>

\* Sequences over S of length lo..hi.
SeqsOf(S, lo, hi) == UNION {[1..n -> S] : n \in lo..hi}

Distinct(s) == \A i, j \in 1..Len(s) : s[i] = s[j] => i = j

\* The text of a JSON object: pad stands between every colon and its value.
RenderObject(members, pad) ==
    <<LBrace>>
    \o JoinToks([i \in 1..Len(members) |->
                    <<StrTok(members[i][1]), Colon>> \o pad \o <<members[i][2]>>],
                <<Comma>>)
    \o <<RBrace>>

\* Header cells as they stand in a file, and what column i holds in row r.
RawNames ==
    { Name,
      <<" ">> \o Name \o <<" ", NBSP>>,
      <<"a", IDSP, CR, LF, TAB, " ", "b">> }

ColumnKinds == {"ids", "names", "codes"}

Digits == <<"1", "2", "3", "4", "5", "6", "7", "8", "9">>

CellText(kind, r) ==
    CASE kind = "ids"   -> <<Digits[r]>>
      [] kind = "names" -> IF r % 2 = 1 THEN <<"A", "l">> ELSE <<>>
      [] OTHER          -> IF r % 2 = 1 THEN <<"N", "A">> ELSE <<"x", " ">>

\* The CSV texts: pairwise different header cells (pandas renames repeated
\* ones while it reads), every row as long as the header.
Tables ==
    { CsvTable(h, [r \in 1..n |-> [c \in 1..Len(h) |-> CellText(k[c], r)]]) :
        <<h, k, n>> \in
            { <<h, k, n>> \in SeqsOf(RawNames, 1, MaxCols)
                              \X SeqsOf(ColumnKinds, 1, MaxCols) \X (0..MaxRows) :
                 /\ Len(h) = Len(k)
                 /\ Distinct(h)
                 /\ n = 0 => \A c \in 1..Len(k) : k[c] = "ids" } }

BlobKeys == {"utf-8", "gbk", "sheet"}

Utf8Only(text) == [e \in BlobKeys |-> IF e = "utf-8" THEN Decoded(text) ELSE DecodeError]

\* Mappings as handler_input returns them, written out as table_fields texts.
MapKeys == { Name, <<"a", " ", "b">>, <<"z">> }
Aliases == { <<"x">>, <<"y">> }

MappingTexts ==
    { RenderObject([i \in 1..Len(ks) |-> <<ks[i], StrTok(als[i])>>], <<Ws(" ")>>) :
        <<ks, als>> \in { <<ks, als>> \in SeqsOf(MapKeys, 0, MaxPairs)
                                         \X SeqsOf(Aliases, 0, MaxPairs) :
                             Len(ks) = Len(als) /\ Distinct(ks) } }

\* table_fields texts for the parser.
KeyTexts ==
    { <<"a">>, <<" ", "a">>, <<"a", " ", NBSP, "b">>, <<"a", TAB, "b">>,
      <<NBSP>>, <<ESC_NBSP, "b">> }

ValueToks ==
    { StrTok(<<"x">>), StrTok(<<"x", IDSP, " ", "y", " ">>), StrTok(<<" ">>), NumTok }

Pads == { <<>>, <<Ws(NBSP)>>, <<Ws(LF), Ws(" ")>> }

ObjectTexts ==
    { RenderObject(m, pad) : <<m, pad>> \in SeqsOf(KeyTexts \X ValueToks, 0, MaxPairs) \X Pads }

OtherTexts ==
    { <<>>, <<Ws(" ")>>, <<Ws(TAB), Ws(NBSP)>>, <<JunkTok>>, <<Ws(" "), JunkTok, Ws(" "), JunkTok>>,
      <<NumTok>>, <<NullTok>>, <<Ws(" "), StrTok(<<"a">>)>>,
      <<LBrace, StrTok(<<"a">>), Colon>>,
      <<LBrace, StrTok(<<"a">>), Colon, StrTok(<<"x">>), Comma, RBrace>>,
      <<LBrace, NumTok, Colon, StrTok(<<"x">>), RBrace>>,
      <<LBrace, StrTok(<<"a">>), Colon, StrTok(<<"x">>), RBrace, JunkTok>> }

\* A CSV file with the columns "a", "b" and "a b".
PlainFile ==
    File(DotCsv, Utf8Only(CsvTable(<<<<"a">>, <<" ", "b">>, <<"a", " ", " ", "b">>>>,
                                   <<<<<<"1">>, <<>>, <<"2">>>>>>)))

Extensions ==
    { DotCsv, <<".", "C", "S", "V">>, <<".", "C", "s", "v">>, DotXlsx, <<".", "X", "L", "S", "X">>,
      DotXls, <<".", "X", "l", "s">>, <<".", "t", "x", "t">>, <<>>, <<"c", "s", "v">> }

NameTable == CsvTable(<<Name>>, <<<<<<"A", "l">>>>>>)
LegacyTable == CsvTable(<<Name, <<"z">>>>, <<<<<<"B", "o">>, <<"1">>>>>>)

Outcomes ==
    { DecodeError, Decoded(Malformed), Decoded(EmptyText), Decoded(NameTable),
      Decoded(LegacyTable) }

Blobs == {b \in [BlobKeys -> Outcomes] : b["sheet"] \in {DecodeError, Decoded(NameTable)}}

NameMapping == RenderObject(<<<<Name, StrTok(<<"x">>)>>>>, <<>>)

NotAFile == [is_file |-> FALSE, extension |-> <<>>, blob |-> Utf8Only(EmptyText)]

Start(params) ==
    /\ pc = "start"
    /\ tool_parameters = params
    /\ field_mapping = <<>>
    /\ enc_idx = 1
    /\ df = NoFrame
    /\ result = <<>>
    /\ exc = NoExc
    /\ messages = <<>>

\* The parser's inputs, with a file that has some of the columns.
InitParse ==
    \E text \in ObjectTexts \cup OtherTexts : Start(Params(TRUE, text, TRUE, PlainFile))

\* Frames and mappings for the projection.
InitProject ==
    \E text \in MappingTexts, table \in Tables :
        Start(Params(TRUE, text, TRUE, File(DotCsv, Utf8Only(table))))

\* Extensions and contents for the decoder.
InitDecode ==
    \E ext \in Extensions, blob \in Blobs :
        Start(Params(TRUE, NameMapping, TRUE, File(ext, blob)))

\* Calls with a parameter missing or of the wrong type.
InitParams ==
    \E has_fields, has_file \in BOOLEAN, file \in {PlainFile, NotAFile},
       text \in {NameMapping, <<JunkTok>>} :
        Start(Params(has_fields, text, has_file, file))

Init == InitParse \/ InitProject \/ InitDecode \/ InitParams

Spec == Init /\ [][Next]_vars

SpecParse == InitParse /\ [][Next]_vars

SpecProject == InitProject /\ [][Next]_vars

SpecDecode == InitDecode /\ [][Next]_vars

----------------------------------------------------------------------------
(* Properties of handler_input *)

TableFields == tool_parameters.table_fields

\* handler_input has run on a text.
Parsed == pc # "start" /\ tool_parameters.has_table_fields

\* InvalidInputError: a ValueError out of handler_input.
InvalidInputError(e) ==
    /\ e.cls = "ValueError"
    /\ e.fmt \in {"Empty table_fields input", "Invalid JSON format: {e}",
                  "Failed to parse table_fields: {e}"}

ParseFailed ==
    /\ pc \in {"except", "done"}
    /\ InvalidInputError(exc)
    /\ field_mapping = <<>>

Blank(text) == \A i \in 1..Len(text) : IsWsTok(text[i])

GoodPair(item) ==
    /\ Strip(item[1]) # <<>>
    /\ item[2].t = "str"
    /\ Strip(item[2].s) # <<>>

\* A JSON object whose keys and values are strings, non-empty once trimmed.
GoodObject(v) == v.t = "dict" /\ \A i \in 1..Len(v.items) : GoodPair(v.items[i])

TrimmedPairs(items) ==
    [i \in 1..Len(items) |-> <<Strip(items[i][1]), Strip(items[i][2].s)>>]

\* The text as handler_input parses it.
NormalizedFields == StripText(ReSubText(TableFields))

BadInput(text, value) ==
    \/ text = <<>>
    \/ Blank(text)
    \/ value.t = "err"
    \/ ~GoodObject(value)

\* C6 as stated: an empty or blank text, a text that is not valid JSON, a
\* JSON value that is no object and an object with a bad key or value all
\* fail with InvalidInputError, and no mapping has an empty key or alias.
C6_InvalidJsonRejected ==
    /\ (Parsed /\ BadInput(TableFields, json_loads(TableFields))) => ParseFailed
    /\ \A i \in 1..Len(field_mapping) :
          field_mapping[i][1] # <<>> /\ field_mapping[i][2] # <<>>

\* C6, amended: the same, where "not valid JSON" is said of the text after
\* whitespace normalization (a non-breaking space between tokens, or a raw
\* tab or line break inside a string literal, is accepted).
C6_InvalidNormalizedRejected ==
    /\ (Parsed /\ BadInput(TableFields, json_loads(NormalizedFields))) => ParseFailed
    /\ \A i \in 1..Len(field_mapping) :
          /\ Strip(field_mapping[i][1]) # <<>>
          /\ Strip(field_mapping[i][2]) # <<>>

\* An object whose second value is blank was refused.
C6_Witness ==
    /\ pc = "except"
    /\ ParseFailed
    /\ json_loads(NormalizedFields).t = "dict"
    /\ Len(json_loads(NormalizedFields).items) = 2
    /\ GoodPair(json_loads(NormalizedFields).items[1])
    /\ ~GoodPair(json_loads(NormalizedFields).items[2])

----------------------------------------------------------------------------
(* Properties of the header cleaning and of the projection *)

ListedWhitespace == {" ", NBSP, IDSP, CR, LF, TAB}

\* The maximal runs of characters of s that are not whitespace.
RECURSIVE Words(_)
Words(s) ==
    IF s = <<>> THEN <<>>
    ELSE IF Head(s) \in ListedWhitespace THEN Words(Tail(s))
    ELSE LET n == CHOOSE n \in 1..Len(s) :
                     /\ \A i \in 1..n : s[i] \notin ListedWhitespace
                     /\ n = Len(s) \/ s[n + 1] \in ListedWhitespace
         IN  <<SubSeq(s, 1, n)>> \o Words(SubSeq(s, n + 1, Len(s)))

\* The words of s with one space between them.
Canonical(s) == JoinToks(Words(s), <<" ">>)

\* C10: cleaning gives the k-th column the canonical form of its k-th name
\* (runs of whitespace collapsed to one space, the ends trimmed) and changes
\* neither the number of columns nor any row.
C10_ColumnsNormalizedInPlace ==
    [][pc = "clean" =>
          /\ Len(df'.columns) = Len(df.columns)
          /\ \A k \in 1..Len(df.columns) : df'.columns[k] = Canonical(df.columns[k].s)
          /\ df'.data = df.data]_vars

\* The only header cell is " Name " followed by a non-breaking space, the
\* mapping asks for "Name", and the records are there.
C10_Witness ==
    /\ pc = "yield_json"
    /\ tool_parameters.file.blob["utf-8"].text.header = <<<<" ">> \o Name \o <<" ", NBSP>>>>
    /\ DictKeys(field_mapping) = <<Name>>
    /\ df.columns = <<Name>>
    /\ Len(result) = MaxRows

\* The projection has run on the cleaned frame df.
Projected == df # NoFrame /\ pc \in {"yield_json", "yield_text", "except", "done"}

Succeeded == pc \in {"yield_json", "yield_text", "done"} /\ exc = NoExc

ColumnsNamed(k) == {i \in 1..Len(df.columns) : df.columns[i] = k}

MissingKeys == {k \in KeySet(field_mapping) : ColumnsNamed(k) = {}}

MissingColumnsError(e) ==
    /\ e.cls = "ValueError"
    /\ e.fmt = "Missing columns in file: {missing_cols}. Available: {list(df.columns)}"

\* C4: when a mapping key is no column of the cleaned frame the call fails
\* with MissingColumnsError, whose message lists every missing key and all
\* the columns, and no record is returned; when none is missing that error
\* is not raised.
C4_MissingColumns ==
    Projected =>
        IF MissingKeys # {}
        THEN /\ pc \in {"except", "done"}
             /\ MissingColumnsError(exc)
             /\ {exc.args[1][i] : i \in 1..Len(exc.args[1])} = MissingKeys
             /\ exc.args[2] = df.columns
             /\ result = <<>>
             /\ \A i \in 1..Len(messages) : messages[i].type # "json"
        ELSE exc = NoExc

\* Both keys of the mapping are missing from a frame with one column.
C4_Witness ==
    /\ pc = "done"
    /\ MissingColumnsError(exc)
    /\ Cardinality(MissingKeys) = 2
    /\ Len(df.columns) = 1

\* None for a missing cell, else the cell.
NullIfMissing(cell) == IF cell.t = "nan" THEN PyNull ELSE cell

\* Record by record: one entry per mapping key, in key order, under the
\* key's alias, holding the cell of a column called by the key.
RecordsFollowMapping ==
    /\ Len(result) = Len(df.data)
    /\ \A r \in 1..Len(result) :
          /\ Len(result[r]) = Len(field_mapping)
          /\ \A i \in 1..Len(field_mapping) :
                /\ i <= Len(result[r])
                /\ result[r][i][1] = field_mapping[i][2]
                /\ \E c \in ColumnsNamed(field_mapping[i][1]) :
                      result[r][i][2] = NullIfMissing(df.data[r][c])

UnambiguousMapping ==
    /\ field_mapping # <<>>
    /\ Distinct(DictValues(field_mapping))
    /\ \A i \in 1..Len(field_mapping) : Cardinality(ColumnsNamed(field_mapping[i][1])) = 1

CsvRows == tool_parameters.file.blob["utf-8"].text.rows

\* C7: every value of a record is a string or null; an empty cell gives null
\* and a cell with text gives that text.
C7_TextKeptEmptyNull ==
    (Succeeded /\ UnambiguousMapping) =>
        \A r \in 1..Len(result) : \A i \in 1..Len(result[r]) :
            LET c == CHOOSE c \in ColumnsNamed(field_mapping[i][1]) : TRUE
                cell == CsvRows[r][c]
            IN  /\ result[r][i][2].t \in {"str", "none"}
                /\ result[r][i][2] = IF cell = <<>> THEN PyNull ELSE PyStr(cell)

----------------------------------------------------------------------------
(* Properties of the decoder *)

TheFile == tool_parameters.file

\* read_table_file_to_objects has chosen a reader for a File.
ReaderChosen ==
    /\ pc \notin {"start", "read"}
    /\ tool_parameters.has_file
    /\ TheFile.is_file

CsvExtensions ==
    {<<".", a, b, c>> : a \in {"c", "C"}, b \in {"s", "S"}, c \in {"v", "V"}}

SheetExtensions ==
    {<<".", a, b, c>> : a \in {"x", "X"}, b \in {"l", "L"}, c \in {"s", "S"}}
    \cup {<<".", a, b, c, d>> : a \in {"x", "X"}, b \in {"l", "L"}, c \in {"s", "S"},
                               d \in {"x", "X"}}

\* FileParseError: the RuntimeError that wraps what the readers raise.
FileParseError(e) == e.cls = "RuntimeError" /\ e.fmt = "Failed to parse file: {e}"

UnsupportedFormatError(e) ==
    /\ e.cls = "ValueError"
    /\ e.fmt = "Unsupported file format: {ext}. Only .csv, .xlsx, and .xls are supported."

\* C2: an extension other than .csv, .xlsx and .xls fails with
\* UnsupportedFormatError, not with the FileParseError of parser failures,
\* and the error names the extension and the supported ones.
C2_UnsupportedFormatKind ==
    (ReaderChosen /\ TheFile.extension \notin CsvExtensions \cup SheetExtensions) =>
        /\ pc \in {"except", "done"}
        /\ UnsupportedFormatError(exc)
        /\ ~FileParseError(exc)
        /\ exc.args = <<<<Lower(TheFile.extension)>>>>

\* What the file is under the k-th codec tried.
Candidate(k) == TheFile.blob[<<"utf-8", "gbk">>[k]]

Reads(k) == Candidate(k).ok /\ Candidate(k).text.kind = "table"

\* A decode error or a parse error.
FailsCaught(k) == ~Candidate(k).ok \/ Candidate(k).text.kind = "malformed"

\* UnreadableFileError: the message names the encodings tried.
UnreadableFileError(e) ==
    LET u == IF e.cause = <<>> THEN e ELSE e.cause[1]
    IN  /\ e.cls = "RuntimeError"
        /\ u.cls = "RuntimeError"
        /\ u.fmt = "Failed to decode CSV with encodings: {encodings}"
        /\ u.args = <<<<<<"utf-8">>, <<"gbk">>>>>>

C9_SheetRecords ==
    ( /\ ReaderChosen
      /\ TheFile.extension \in SheetExtensions
      /\ TheFile.blob["sheet"].ok
      /\ \A i \in 1..Len(field_mapping) :
            \E c \in 1..Len(TheFile.blob["sheet"].text.header) :
               Canonical(TheFile.blob["sheet"].text.header[c]) = field_mapping[i][1]
      /\ pc = "done" ) =>
        /\ exc = NoExc
        /\ Len(messages) = 2
        /\ messages[1].type = "json"
        /\ Len(messages[1].json.result) = Len(TheFile.blob["sheet"].text.rows)

----------------------------------------------------------------------------
(* Properties of _invoke *)

IsResultMessage(m) == m.type = "json"

IsErrorMessage(m) == m.type = "text" /\ m.fmt = "Error: {e}" /\ Len(m.e) = 1

IsEchoOf(m, j) ==
    /\ m.type = "text"
    /\ m.fmt = "{text}"
    /\ m.text = json_dumps(j.json)

\* C1: the messages of a call are either the result message followed by its
\* text echo, or one error message; a result message never stands with an
\* error message, and a failure of any stage ends in the error message.
C1_MessageShapes ==
    /\ pc = "done" =>
          \/ /\ exc = NoExc
             /\ Len(messages) = 2
             /\ IsResultMessage(messages[1])
             /\ messages[1].json.result = result
             /\ IsEchoOf(messages[2], messages[1])
          \/ /\ exc # NoExc
             /\ Len(messages) = 1
             /\ IsErrorMessage(messages[1])
             /\ messages[1].e[1] = exc
    /\ pc # "done" =>
          \/ messages = <<>>
          \/ /\ pc = "yield_text"
             /\ Len(messages) = 1
             /\ IsResultMessage(messages[1])
    /\ exc # NoExc => pc \in {"except", "done"}
    /\ pc \in {"start", "read", "csv", "clean", "project", "yield_json", "yield_text",
              "except", "done"}
    /\ ~ \E i, j \in 1..Len(messages) :
            IsResultMessage(messages[i]) /\ IsErrorMessage(messages[j])

\* A call that ended with two records in its result message.
C1_Witness ==
    /\ pc = "done"
    /\ Len(messages) = 2
    /\ Len(messages[1].json.result) = 2
    /\ Len(messages[1].json.result[1]) = 2

====
